---- MODULE Spec2Model ----
(***************************************************************************)
(* The solving-session state machine of loopover (src/src/state.ts): the   *)
(* State singleton, its timer, its move log with the undo cursor, the      *)
(* mode-dependent handling of player moves, and the recording of solves.   *)
(*                                                                         *)
(* Every method of State is an operator from a state record to a state     *)
(* record, so that a method calling another one is the composition of the  *)
(* two; an action of the model is one handler run to completion, or to its *)
(* await (JavaScript is single-threaded): reset() and handleSolved() go on *)
(* after their await in an action of their own, when the store has         *)
(* answered.  Date.now() is a clock that never runs backwards: every read  *)
(* of it in a handler may find it advanced.                                *)
(***************************************************************************)
EXTENDS Integers, Sequences, FiniteSets, TLC

\* ---------------------------------------------------------------- bounds
\* Spec: the clock advances, one solve is recorded.
MaxClock == 1      \* Date.now() stays in 0..MaxClock
MaxLog == 2        \* the move log holds at most MaxLog entries
MaxSolves == 1     \* at most MaxSolves solves are recorded
\* SpecLong: several solves are recorded, at one reading of the clock.
LongClock == 0
LongLog == 1
LongSolves == 2
\* SpecDb: the store is open; its reads and writes are in flight.
DbClock == 0
DbLog == 1
DbSolves == 2
DbLoads == 2       \* at most DbLoads reads of the store are in flight
ScrambleLen == 1   \* a scramble is at most ScrambleLen moves off solved

\* ------------------------------------------------------ program constants
Normal == 0
Fmc == 1
Blind == 2
EventTypes == {Normal, Fmc, Blind}

Row == 0
Col == 1

Dims == <<3, 1>>               \* cols, rows of the stored preferences
MoveIndices == {0}             \* the rows and columns the player moves
MoveAmounts == {-2, 1, 2}      \* the n of a player move

Abs(n) == IF n < 0 THEN -n ELSE n
Sign(n) == IF n < 0 THEN -1 ELSE IF n > 0 THEN 1 ELSE 0

\* ------------------------------------------------------------ the board
\* Board(cols, rows): the solved grid, tiles numbered row by row.
NewBoard(cols, rows) ==
  [cols |-> cols, rows |-> rows,
   grid |-> [r \in 0..(rows - 1) |-> [c \in 0..(cols - 1) |-> r * cols + c + 1]]]

\* scrambledBoard before the first scramble: undefined.
NoBoard == [cols |-> 0, rows |-> 0, grid |-> <<>>]

\* Board.move: row `index` shifts right by n, or column `index` down by n,
\* with wrap-around.
BoardMove(b, axis, index, n) ==
  [b EXCEPT !.grid =
     [r \in 0..(b.rows - 1) |-> [c \in 0..(b.cols - 1) |->
        IF axis = Row /\ r = index THEN b.grid[r][(c - n) % b.cols]
        ELSE IF axis = Col /\ c = index THEN b.grid[(r - n) % b.rows][c]
        ELSE b.grid[r][c]]]]

BoardIsSolved(b) == b.grid = NewBoard(b.cols, b.rows).grid

\* Board.clone: a new object with the same tiles.  Boards are values here, so
\* a clone is the value itself; what matters is where the source does NOT
\* clone, and no board object is mutated in place by state.ts.
BoardClone(b) == b

\* The moves a player can make on the board, and the boards a scramble can
\* leave (never the solved one).
Moves == [axis : {Row}, index : MoveIndices, n : MoveAmounts]

RECURSIVE BoardsWithin(_, _, _)
BoardsWithin(cols, rows, k) ==
  IF k = 0 THEN {NewBoard(cols, rows)}
  ELSE LET prev == BoardsWithin(cols, rows, k - 1)
       IN  prev \cup {BoardMove(b, m.axis, m.index, m.n) : b \in prev, m \in Moves}

Scrambles(cols, rows) ==
  {b \in BoardsWithin(cols, rows, ScrambleLen) : ~BoardIsSolved(b)}

\* ------------------------------------------------------------ the state
VARIABLES
  cols, rows, event, noRegrips,      \* the puzzle configuration
  started, scrambled, inSolvingPhase, dnf, inspecting,
  time, startTime, memoTime,
  intervalLive,    \* the sampler named by this.interval is scheduled
  leaked,          \* scheduled samplers this.interval no longer names
  scrambledBoard, moveHistory, undos,
  solvesKey,       \* the key of the sessionSolves array this.solves is
  ownSolves,       \* the array this.solves was constructed with
  allSolves, sessionSolves,
  board, blind,    \* game.board, game.blind
  now,             \* the last value Date.now() returned
  logRef,          \* the solve whose moves array this.moveHistory is, or 0
  db,              \* this.db is set: openDB has resolved
  sessionId,       \* this.sessionId, 0 while undefined
  sessions,        \* the rows of the store's sessions table, by their ids
  stored,          \* the rows of the store's solves table
  loads,           \* the reads of reset() the store has not answered yet
  puts,            \* the calls of handleSolved that await their session id
  \* history variables, which no handler reads:
  lastOp,          \* the handler that ran last
  cut,             \* the log entries it spliced off the end of the log,
                   \* or -1 if it was not handleMove logging a move
  mark             \* board, log and cursor when the running sequence of
                   \* undo() and redo() calls began

fields == <<cols, rows, event, noRegrips, started, scrambled, inSolvingPhase,
            dnf, inspecting, time, startTime, memoTime, intervalLive, leaked,
            scrambledBoard, moveHistory, undos, solvesKey, ownSolves,
            allSolves, sessionSolves, board, blind, now,
            logRef, db, sessionId, sessions, stored, loads, puts>>

vars == <<fields, lastOp, cut, mark>>

\* The State object (with the Game's board and visibility, and the clock) as
\* one record: the methods below take it and return it.
State ==
  [cols |-> cols, rows |-> rows, event |-> event, noRegrips |-> noRegrips,
   started |-> started, scrambled |-> scrambled,
   inSolvingPhase |-> inSolvingPhase, dnf |-> dnf, inspecting |-> inspecting,
   time |-> time, startTime |-> startTime, memoTime |-> memoTime,
   intervalLive |-> intervalLive, leaked |-> leaked,
   scrambledBoard |-> scrambledBoard, moveHistory |-> moveHistory,
   undos |-> undos, solvesKey |-> solvesKey, ownSolves |-> ownSolves,
   allSolves |-> allSolves, sessionSolves |-> sessionSolves,
   board |-> board, blind |-> blind, now |-> now,
   logRef |-> logRef, db |-> db, sessionId |-> sessionId,
   sessions |-> sessions, stored |-> stored, loads |-> loads, puts |-> puts]

Becomes(s) ==
  /\ cols' = s.cols /\ rows' = s.rows /\ event' = s.event
  /\ noRegrips' = s.noRegrips
  /\ started' = s.started /\ scrambled' = s.scrambled
  /\ inSolvingPhase' = s.inSolvingPhase /\ dnf' = s.dnf
  /\ inspecting' = s.inspecting
  /\ time' = s.time /\ startTime' = s.startTime /\ memoTime' = s.memoTime
  /\ intervalLive' = s.intervalLive /\ leaked' = s.leaked
  /\ scrambledBoard' = s.scrambledBoard /\ moveHistory' = s.moveHistory
  /\ undos' = s.undos /\ solvesKey' = s.solvesKey /\ ownSolves' = s.ownSolves
  /\ allSolves' = s.allSolves /\ sessionSolves' = s.sessionSolves
  /\ board' = s.board /\ blind' = s.blind /\ now' = s.now
  /\ logRef' = s.logRef /\ db' = s.db /\ sessionId' = s.sessionId
  /\ sessions' = s.sessions /\ stored' = s.stored
  /\ loads' = s.loads /\ puts' = s.puts

\* this.solves is the array of sessionSolves it was last taken from, or the
\* array of the constructor while reset() has not run.
NoKey == <<>>

solvesOf(s) ==
  IF s.solvesKey = NoKey THEN s.ownSolves ELSE s.sessionSolves[s.solvesKey]

\* get eventName
EventSuffix == [e \in EventTypes |->
                  IF e = Normal THEN "" ELSE IF e = Fmc THEN "-fmc" ELSE "-bld"]

eventName(s) ==
  <<s.cols, "x", s.rows, EventSuffix[s.event],
    IF s.noRegrips THEN "-nrg" ELSE "">>

\* The event names of the model's configurations.  sessionSolves is a
\* function on all of them: a key the object does not hold yet reads as the
\* empty list, which is what reset() puts there before the key is first used.
EventNames ==
  {<<Dims[1], "x", Dims[2], EventSuffix[e], IF g THEN "-nrg" ELSE "">> :
     e \in EventTypes, g \in BOOLEAN}

\* get moves
moves(s) == Len(s.moveHistory) - s.undos

\* Date.now(): the clock as the read finds it, d after the last read.
DateNow(s, d) == s.now + d

clearInterval(s) == [s EXCEPT !.intervalLive = FALSE]

\* start(): the timer runs from now; a sampler is scheduled.
start(s, d) ==
  [s EXCEPT !.started = TRUE,
            !.time = 0,
            !.memoTime = 0,
            !.now = DateNow(s, d),
            !.startTime = DateNow(s, d),
            !.leaked = IF s.intervalLive THEN @ + 1 ELSE @,
            !.intervalLive = TRUE]

\* The sampler's callback.
tick(s, d) ==
  [s EXCEPT !.now = DateNow(s, d), !.time = DateNow(s, d) - s.startTime]

\* -------------------------------------------------------------- objects
\* A Solve is an object, and ref names it: the n-th Solve handleSolved
\* builds has ref n, and the i-th object reset() builds from the rows the
\* store answers with has ref -i, until the next answer replaces the list.
RECURSIVE SumLen(_, _)
SumLen(f, keys) ==
  IF keys = {} THEN 0
  ELSE LET k == CHOOSE x \in keys : TRUE
       IN  Len(f[k]) + SumLen(f, keys \ {k})

\* The solves recorded so far by the running process.
Recorded(s) == Len(s.ownSolves) + SumLen(s.sessionSolves, DOMAIN s.sessionSolves)

\* splice and push change the array this.moveHistory names in place: the
\* change shows through every name of the array, and after inspect(solve)
\* solve.moves is one of them.
withLog(list, ref, log) ==
  [i \in 1..Len(list) |->
     IF list[i].ref = ref THEN [list[i] EXCEPT !.moves = log] ELSE list[i]]

setLog(s, log) ==
  IF s.logRef = 0 THEN [s EXCEPT !.moveHistory = log]
  ELSE [s EXCEPT
          !.moveHistory = log,
          !.ownSolves = withLog(@, s.logRef, log),
          !.allSolves = withLog(@, s.logRef, log),
          !.sessionSolves = [k \in DOMAIN @ |-> withLog(@[k], s.logRef, log)]]

\* reset()'s read of the store, this.db.getAllFromIndex("solves", "event",
\* eventName): the request is in flight until the store answers it, and
\* it is the latest one until reset() makes another.
getAllFromIndex(s, key) ==
  IF s.db
  THEN [s EXCEPT !.loads =
          Append([i \in 1..Len(@) |-> [@[i] EXCEPT !.latest = FALSE]],
                 [key |-> key, latest |-> TRUE])]
  ELSE s

\* A variant of reset that leaves dnf as it was.
resetKeepsDnf(s, onlyResetState) ==
  LET s1 == [clearInterval(s) EXCEPT
               !.started = FALSE,
               !.scrambled = FALSE,
               !.inSolvingPhase = FALSE,
               !.moveHistory = <<>>,
               !.undos = 0,
               !.time = 0,
               !.memoTime = 0,
               !.inspecting = FALSE,
               !.logRef = 0,
               !.solvesKey = eventName(s)]
  IN  IF onlyResetState THEN s1
      ELSE getAllFromIndex(
             [s1 EXCEPT !.board = NewBoard(s.cols, s.rows), !.blind = FALSE],
             eventName(s))

\* reset(onlyResetState), up to its await: the log is a new array, and the
\* full reset asks the store for the solves of the event.
reset(s, onlyResetState) ==
  LET key == eventName(s)
      s1 == [clearInterval(s) EXCEPT
               !.started = FALSE,
               !.scrambled = FALSE,
               !.inSolvingPhase = FALSE,
               !.dnf = FALSE,
               !.moveHistory = <<>>,
               !.logRef = 0,
               !.undos = 0,
               !.time = 0,
               !.memoTime = 0,
               !.inspecting = FALSE]
      \* sessionSolves[key] is created empty if it is missing, and this.solves
      \* becomes that array
      s2 == [s1 EXCEPT !.solvesKey = key]
  IN  IF onlyResetState THEN s2
      ELSE getAllFromIndex(
             [s2 EXCEPT !.board = NewBoard(s.cols, s.rows),  \* game.setBoardSize
                        !.blind = FALSE],
             key)

\* handleSolved(): stop the timer, build the Solve and append it to
\* this.solves and to allSolves; with a store, forward it, after the
\* session id has been allocated if there is none yet.
NewSolve(s) ==
  [ref |-> Recorded(s) + 1,
   startTime |-> s.startTime,
   time |-> s.time,
   moves |-> s.moveHistory,           \* [...this.moveHistory]
   scramble |-> s.scrambledBoard,
   memoTime |-> IF s.memoTime > 0 THEN <<s.memoTime>> ELSE <<>>,
   dnf |-> IF s.dnf THEN <<TRUE>> ELSE <<>>]

pushSolve(s, solve) ==
  [s EXCEPT
     !.ownSolves = IF s.solvesKey = NoKey THEN Append(@, solve) ELSE @,
     !.sessionSolves =
        IF s.solvesKey = NoKey THEN @
        ELSE [@ EXCEPT ![s.solvesKey] = Append(@, solve)],
     !.allSolves = Append(@, solve)]

\* this.db.put("solves", {event, session, solve}): the row holds a copy of
\* the solve as it is when put is called.
putSolve(s, solve) ==
  [s EXCEPT !.stored = Append(@, [event |-> eventName(s),
                                  session |-> s.sessionId,
                                  solve |-> solve])]

\* With a store, handleSolved forwards the solve: at once if the session has
\* its id, and else after the await of the put of the session row.
forwardSolve(s, solve) ==
  IF ~s.db THEN s
  ELSE IF s.sessionId = 0 THEN [s EXCEPT !.puts = Append(@, solve)]
  ELSE putSolve(s, solve)

\* Variants of handleSolved with a slip in it: the Blind phase flag is left
\* as it was; the sampler is left scheduled.
handleSolvedKeepsPhase(s, d) ==
  LET s1 == [clearInterval(s) EXCEPT
               !.now = DateNow(s, d),
               !.time = DateNow(s, d) - s.startTime,
               !.started = FALSE,
               !.scrambled = FALSE]
  IN  forwardSolve(pushSolve(s1, NewSolve(s1)), NewSolve(s1))

handleSolvedKeepsSampler(s, d) ==
  LET s1 == [s EXCEPT
               !.now = DateNow(s, d),
               !.time = DateNow(s, d) - s.startTime,
               !.started = FALSE,
               !.scrambled = FALSE,
               !.inSolvingPhase = FALSE]
  IN  forwardSolve(pushSolve(s1, NewSolve(s1)), NewSolve(s1))

handleSolved(s, d) ==
  LET s1 == [clearInterval(s) EXCEPT
               !.now = DateNow(s, d),
               !.time = DateNow(s, d) - s.startTime,
               !.started = FALSE,
               !.scrambled = FALSE,
               !.inSolvingPhase = FALSE]
  IN  forwardSolve(pushSolve(s1, NewSolve(s1)), NewSolve(s1))

\* The |n| entries handleMove pushes for a move, Date.now() read for each:
\* ds[i] is how far the clock has advanced when the i-th entry is pushed.
RECURSIVE pushEntries(_, _, _, _)
pushEntries(s, move, i, ds) ==
  IF i > Abs(move.n) THEN s
  ELSE LET t == DateNow(s, ds[i])
           entry == [axis |-> move.axis, index |-> move.index,
                     n |-> Sign(move.n), time |-> t - s.startTime]
       IN  pushEntries(setLog([s EXCEPT !.now = t],
                              Append(s.moveHistory, entry)),
                       move, i + 1, ds)

\* Variants of the splice with a slip in it: the cursor is left as it was;
\* one undone entry is left in the log.
spliceKeepsCursor(s) ==
  IF s.undos > 0
  THEN setLog(s, SubSeq(s.moveHistory, 1, Len(s.moveHistory) - s.undos))
  ELSE s

spliceLeavesOne(s) ==
  IF s.undos > 0
  THEN [setLog(s, SubSeq(s.moveHistory, 1, Len(s.moveHistory) - s.undos + 1))
          EXCEPT !.undos = 0]
  ELSE s

\* handleMove's splice: a move made with undone entries at the end of the
\* log drops them.
spliceUndone(s) ==
  IF s.undos > 0
  THEN [setLog(s, SubSeq(s.moveHistory, 1, Len(s.moveHistory) - s.undos))
          EXCEPT !.undos = 0]
  ELSE s

\* A variant of afterMove that takes the memo time at every Blind move.
afterMoveAlwaysMemo(s, d) ==
  IF s.event = Blind
  THEN [s EXCEPT !.inSolvingPhase = TRUE,
                 !.blind = TRUE,
                 !.now = DateNow(s, d),
                 !.memoTime = DateNow(s, d) - s.startTime]
  ELSE IF BoardIsSolved(s.board) THEN handleSolved(s, d) ELSE s

\* handleMove's end: Blind hides the board at the first move and takes the
\* memo time; the other events look whether the board is solved.
afterMove(s, d) ==
  IF s.event = Blind
  THEN IF ~s.inSolvingPhase
       THEN [s EXCEPT !.inSolvingPhase = TRUE,
                      !.blind = TRUE,
                      !.now = DateNow(s, d),
                      !.memoTime = DateNow(s, d) - s.startTime]
       ELSE s
  ELSE IF BoardIsSolved(s.board) THEN handleSolved(s, d) ELSE s

\* A variant of playerMove that does not start the timer at the first move.
playerMoveNeedsStarted(s, move, ck) ==
  IF ~s.started THEN s
  ELSE afterMove(pushEntries(spliceUndone(s), move, 1, ck.push), ck.tail)

\* A variant of playerMove that logs the move whether the timer runs or not.
playerMoveAnyPhase(s, move, ck) ==
  LET s1 == IF s.scrambled /\ ~s.started THEN start(s, ck.start) ELSE s
  IN  afterMove(pushEntries(spliceUndone(s1), move, 1, ck.push), ck.tail)

\* handleMove for a move of the player, the board already moved.  ck.start,
\* ck.push and ck.tail are the advances of the clock found by the reads of
\* Date.now() in start(), in the loop, and after the loop.
playerMove(s, move, ck) ==
  LET s1 == IF s.scrambled /\ ~s.started THEN start(s, ck.start) ELSE s
  IN  IF ~s1.started THEN s1
      ELSE afterMove(pushEntries(spliceUndone(s1), move, 1, ck.push), ck.tail)

\* A variant of handleMove that does not look at the origin of the move.
handleMoveAnyOrigin(s, move, isPlayerMove, ck) == playerMove(s, move, ck)

\* handleMove(move, isPlayerMove)
handleMove(s, move, isPlayerMove, ck) ==
  IF ~isPlayerMove THEN s ELSE playerMove(s, move, ck)

\* Game.move / Game.animatedMove: the board moves, then the move event is
\* delivered to handleMove with the origin of the move.
gameMove(s, move, isPlayerMove, ck) ==
  handleMove([s EXCEPT !.board = BoardMove(@, move.axis, move.index, move.n)],
             move, isPlayerMove, ck)

\* undo() and redo() read no clock.
NoClock == [start |-> 0, push |-> <<0, 0>>, tail |-> 0]

\* scramble(): b is the board game.scramble() leaves.
scramble(s, b, d) ==
  LET s1 == [reset(s, TRUE) EXCEPT !.board = b]
      s2 == [s1 EXCEPT !.scrambled = TRUE,
                       !.scrambledBoard = BoardClone(s1.board)]
  IN  IF s2.event = Blind THEN start(s2, d) ELSE s2

\* done()
done(s, d) ==
  handleSolved([s EXCEPT !.blind = FALSE,
                         !.dnf = ~BoardIsSolved(s.board)], d)

\* A variant of undoMove that does not invert the entry.
undoMoveForward(entry) ==
  [axis |-> entry.axis, index |-> entry.index, n |-> entry.n]

\* The moves undo() and redo() give game.animatedMove for a log entry.
undoMove(entry) == [axis |-> entry.axis, index |-> entry.index, n |-> -entry.n]
redoMove(entry) == [axis |-> entry.axis, index |-> entry.index, n |-> entry.n]

\* undo(): moveHistory[length - undos - 1], counted from 0
undo(s) ==
  IF s.undos = Len(s.moveHistory) THEN s
  ELSE LET entry == s.moveHistory[Len(s.moveHistory) - s.undos]
           s1 == gameMove(s, undoMove(entry), FALSE, NoClock)
       IN  [s1 EXCEPT !.undos = @ + 1]

\* redo(): moveHistory[length - undos], counted from 0
redo(s) ==
  IF s.undos = 0 THEN s
  ELSE LET entry == s.moveHistory[Len(s.moveHistory) - s.undos + 1]
           s1 == gameMove(s, redoMove(entry), FALSE, NoClock)
       IN  [s1 EXCEPT !.undos = @ - 1]

\* inspect(solve)
inspect(s, solve) ==
  [reset(s, TRUE) EXCEPT
     !.inspecting = TRUE,
     !.time = solve.time,
     !.dnf = (solve.dnf # <<>>),
     \* solve.scramble.clone() throws on a solve recorded without a scramble
     !.board = IF solve.scramble = NoBoard THEN @
               ELSE BoardClone(solve.scramble),
     !.moveHistory = IF solve.scramble = NoBoard THEN @ ELSE solve.moves,
     !.logRef = IF solve.scramble = NoBoard THEN @ ELSE solve.ref,
     !.undos = IF solve.scramble = NoBoard THEN @ ELSE Len(solve.moves)]

\* The watcher of [cols, rows, event, noRegrips], here for a change of the
\* event: game.setBoardSize and reset().
setEvent(s, e) ==
  IF e = s.event THEN s ELSE reset([s EXCEPT !.event = e], FALSE)

\* -------------------------------------------------------------- the store
\* The solves table as earlier runs of the page left it: one solve of the
\* Normal event, recorded in session 1.
OldSolve ==
  [ref |-> 0, startTime |-> 0, time |-> 0,
   moves |-> <<[axis |-> Row, index |-> 0, n |-> 1, time |-> 0]>>,
   scramble |-> BoardMove(NewBoard(Dims[1], Dims[2]), Row, 0, -1),
   memoTime |-> <<>>, dnf |-> <<>>]

History ==
  <<[event |-> <<Dims[1], "x", Dims[2], EventSuffix[Normal], "">>,
     session |-> 1, solve |-> OldSolve]>>

\* The store answers read i of the reads in flight: reset() goes on after
\* its await and allSolves becomes new objects made of the rows of the
\* event the read was for.  A log that was the moves array of an object of
\* the old list is now an array no listed solve has.
rowsOf(table, key) == SelectSeq(table, LAMBDA row : row.event = key)

\* rows.map(({ solve }) => Object.freeze({ ...solve, scramble: new Board(...) }))
Copies(found) == [j \in 1..Len(found) |-> [found[j].solve EXCEPT !.ref = -j]]

loaded(s, i) ==
  LET found == rowsOf(s.stored, s.loads[i].key)
  IN  [s EXCEPT
         !.allSolves = Copies(found),
         !.logRef = IF @ < 0 THEN 0 ELSE @,
         !.loads = SubSeq(@, 1, i - 1) \o SubSeq(@, i + 1, Len(@))]

\* The store fails read i: reset()'s promise is rejected at its await.
loadFailed(s, i) ==
  [s EXCEPT !.loads = SubSeq(@, 1, i - 1) \o SubSeq(@, i + 1, Len(@))]

\* The store has put the session row of the oldest waiting handleSolved:
\* it goes on after its await, takes the row's id as the session id and
\* forwards its solve.
sessionPut(s) ==
  putSolve([s EXCEPT !.sessions = @ + 1,
                     !.sessionId = s.sessions + 1,
                     !.puts = Tail(@)],
           Head(s.puts))

\* The store fails that put: handleSolved's promise is rejected at its await.
sessionPutFailed(s) == [s EXCEPT !.puts = Tail(@)]

\* openDB's callback
openDB(s) == reset([s EXCEPT !.db = TRUE], FALSE)

\* ------------------------------------------------------- the transitions
\* The solves the page lists, which inspect() can be given.
Listed(s) ==
  {solvesOf(s)[i] : i \in 1..Len(solvesOf(s))}
    \cup {s.allSolves[i] : i \in 1..Len(s.allSolves)}

Advances == 0..1

\* The advances that keep the clock within the limit.
Ahead(lim) == {d \in Advances : now + d <= lim.clock}

RECURSIVE Total(_, _)
Total(f, k) == IF k = 0 THEN 0 ELSE f[k] + Total(f, k - 1)

\* The advances of the clock a player move can find: none is read while no
\* timer runs or can start.
Clocks(lim, s, move) ==
  IF s.scrambled \/ s.started
  THEN {ck \in [start : IF s.started THEN {0} ELSE Advances,
                push : [1..Abs(move.n) -> Advances],
                tail : Advances] :
          s.now + ck.start + Total(ck.push, Abs(move.n)) + ck.tail <= lim.clock}
  ELSE {[start |-> 0, push |-> [i \in 1..Abs(move.n) |-> 0], tail |-> 0]}

\* The limits of the specifications.
Limits ==
  [clock |-> MaxClock, log |-> MaxLog, solves |-> MaxSolves, loads |-> 0,
   events |-> EventTypes]
LongLimits ==
  [clock |-> LongClock, log |-> LongLog, solves |-> LongSolves, loads |-> 0,
   events |-> EventTypes]
DbEvents == {Normal, Fmc}      \* the events the player chooses in SpecDb
DbLimits ==
  [clock |-> DbClock, log |-> DbLog, solves |-> DbSolves, loads |-> DbLoads,
   events |-> DbEvents]

InBounds(lim, s) ==
  /\ s.now <= lim.clock
  /\ Len(s.moveHistory) <= lim.log
  /\ Recorded(s) <= lim.solves
  /\ Len(s.loads) <= lim.loads

NoMark == [on |-> FALSE, board |-> NoBoard, moveHistory |-> <<>>, undos |-> 0,
           depth |-> 0, deep |-> 0]

\* The mark after handler op has taken the state to r: set by the first
\* undo() of a sequence of undo() and redo() calls, with the number of undos
\* not yet redone (depth) and the largest such number (deep); dropped by any
\* other handler, and by a redo() past the place the sequence began at.
NextMark(op, r) ==
  IF op = "tick" \/ (op \in {"undo", "redo"} /\ r.undos = undos) THEN mark
  ELSE IF op = "undo"
  THEN IF mark.on
       THEN [mark EXCEPT !.depth = @ + 1,
                         !.deep = IF mark.depth + 1 > @ THEN mark.depth + 1 ELSE @]
       ELSE [on |-> TRUE, board |-> board, moveHistory |-> moveHistory,
             undos |-> undos, depth |-> 1, deep |-> 1]
  ELSE IF op = "redo" /\ mark.on /\ mark.depth > 0
  THEN [mark EXCEPT !.depth = @ - 1]
  ELSE NoMark

\* Handler op takes the state to r.
Step(lim, op, r) ==
  /\ InBounds(lim, r)
  /\ Becomes(r)
  /\ lastOp' = op
  /\ cut' = IF op = "move" /\ (scrambled \/ started) THEN undos ELSE -1
  /\ mark' = NextMark(op, r)

Init ==
  /\ cols = Dims[1] /\ rows = Dims[2]
  /\ event = Normal /\ noRegrips = FALSE
  /\ started = FALSE /\ scrambled = FALSE /\ inSolvingPhase = FALSE
  /\ dnf = FALSE /\ inspecting = FALSE
  /\ time = 0 /\ startTime = 0 /\ memoTime = 0
  /\ intervalLive = FALSE /\ leaked = 0
  /\ scrambledBoard = NoBoard /\ moveHistory = <<>> /\ undos = 0
  /\ solvesKey = NoKey /\ ownSolves = <<>>
  /\ allSolves = <<>> /\ sessionSolves = [k \in EventNames |-> <<>>]
  /\ board = NewBoard(cols, rows) /\ blind = FALSE
  /\ now = 0
  /\ logRef = 0
  /\ db = FALSE /\ sessionId = 0
  /\ sessions = Len(History) /\ stored = History
  /\ loads = <<>> /\ puts = <<>>
  /\ lastOp = "new" /\ cut = -1 /\ mark = NoMark

Scramble(lim) ==
  \E b \in Scrambles(cols, rows), d \in Ahead(lim) :
    \E r \in {scramble(State, b, d)} : Step(lim, "scramble", r)

PlayerMove(lim) ==
  \E m \in Moves : \E ck \in Clocks(lim, State, m) :
    \E r \in {gameMove(State, m, TRUE, ck)} : Step(lim, "move", r)

Undo(lim) == \E r \in {undo(State)} : Step(lim, "undo", r)

Redo(lim) == \E r \in {redo(State)} : Step(lim, "redo", r)

Done(lim) ==
  \E d \in Ahead(lim) : \E r \in {done(State, d)} : Step(lim, "done", r)

Inspect(lim) ==
  \E solve \in Listed(State) :
    \E r \in {inspect(State, solve)} : Step(lim, "inspect", r)

\* reset(), as openDB's callback, changeSize and the watcher call it.
Reset(lim) == \E r \in {reset(State, FALSE)} : Step(lim, "reset", r)

SetEvent(lim) ==
  \E e \in lim.events \ {event} :
    \E r \in {setEvent(State, e)} : Step(lim, "event", r)

Tick(lim) ==
  /\ intervalLive \/ leaked > 0
  /\ \E d \in Ahead(lim) : \E r \in {tick(State, d)} : Step(lim, "tick", r)

\* openDB resolves, which it does at most once.
OpenDB(lim) == ~db /\ \E r \in {openDB(State)} : Step(lim, "open", r)

\* The store answers one of the reads in flight, in any order, or fails it.
Loaded(lim) ==
  \E i \in 1..Len(loads) : \E r \in {loaded(State, i)} : Step(lim, "loaded", r)

LoadFailed(lim) ==
  \E i \in 1..Len(loads) :
    \E r \in {loadFailed(State, i)} : Step(lim, "unloaded", r)

\* The store puts the session rows in the order of the calls, or fails to.
SessionPut(lim) ==
  puts # <<>> /\ \E r \in {sessionPut(State)} : Step(lim, "session", r)

SessionPutFailed(lim) ==
  puts # <<>> /\ \E r \in {sessionPutFailed(State)} : Step(lim, "nosession", r)

Next ==
  \/ Scramble(Limits)
  \/ PlayerMove(Limits)
  \/ Undo(Limits)
  \/ Redo(Limits)
  \/ Done(Limits)
  \/ Inspect(Limits)
  \/ Reset(Limits)
  \/ SetEvent(Limits)
  \/ Tick(Limits)

Spec == Init /\ [][Next]_vars

NextLong ==
  \/ Scramble(LongLimits)
  \/ PlayerMove(LongLimits)
  \/ Undo(LongLimits)
  \/ Redo(LongLimits)
  \/ Done(LongLimits)
  \/ Inspect(LongLimits)
  \/ Reset(LongLimits)
  \/ SetEvent(LongLimits)
  \/ Tick(LongLimits)

SpecLong == Init /\ [][NextLong]_vars

\* The page with its store, in sessions of the Normal and Fmc events: what
\* ends a session there is the solving move, and done(), which ends a Blind
\* session, and inspect() are left to Spec and SpecLong.
NextDb ==
  \/ Scramble(DbLimits)
  \/ PlayerMove(DbLimits)
  \/ Undo(DbLimits)
  \/ Redo(DbLimits)
  \/ Reset(DbLimits)
  \/ SetEvent(DbLimits)
  \/ Tick(DbLimits)
  \/ OpenDB(DbLimits)
  \/ Loaded(DbLimits)
  \/ LoadFailed(DbLimits)
  \/ SessionPut(DbLimits)
  \/ SessionPutFailed(DbLimits)

SpecDb == Init /\ [][NextDb]_vars

\* ------------------------------------------------------------ the claims
\* What a step did, read off the state before and after it.
\* The step is handleMove logging a move of the player: the timer runs, or
\* starts with this move.
Logged == lastOp' = "move" /\ (scrambled \/ started)

\* The entries the log keeps when a move is logged, and the ones it gains.
Kept == SubSeq(moveHistory, 1, Len(moveHistory) - undos)
Gained ==
  SubSeq(moveHistory', Len(moveHistory) - undos + 1, Len(moveHistory'))

\* The step recorded a solve, which is the last one of this.solves.
Records == Recorded(State') > Recorded(State)
TheSolve == solvesOf(State')[Len(solvesOf(State'))]

\* The unit entries of move m, in the order handleMove pushes them, stamped
\* stamps[i].
Entries(m, stamps) ==
  [i \in 1..Abs(m.n) |->
     [axis |-> m.axis, index |-> m.index, n |-> Sign(m.n), time |-> stamps[i]]]

Unstamped(log) ==
  [i \in 1..Len(log) |->
     [axis |-> log[i].axis, index |-> log[i].index, n |-> log[i].n]]

\* C1: in every reachable state the undo cursor lies between 0 and the
\* length of the move log.
C1_CursorInLog == undos >= 0 /\ undos <= Len(moveHistory)

\* C1 is met with the cursor strictly inside a log, after undo() and redo().
C1_Witness ==
  lastOp = "redo" /\ undos > 0 /\ undos < Len(moveHistory)

\* C2: a player move logged while the cursor is k > 0 leaves the log without
\* exactly its last k entries, followed by the unit entries of the move, and
\* the cursor at 0; a move logged at cursor 0 only appends; undo(), redo(),
\* done(), the sampler and a player move that is not logged leave the log as
\* it is.
C2_BranchTruncation ==
  [][/\ (Logged /\ undos > 0) =>
          /\ undos' = 0
          /\ SubSeq(moveHistory', 1, Len(Kept)) = Kept
          /\ \E m \in Moves :
               /\ Len(moveHistory') = Len(Kept) + Abs(m.n)
               /\ Unstamped(Gained) = Unstamped(Entries(m, [i \in 1..2 |-> 0]))
     /\ (Logged /\ undos = 0) =>
          SubSeq(moveHistory', 1, Len(moveHistory)) = moveHistory
     /\ (lastOp' \in {"undo", "redo", "done", "tick"}
           \/ (lastOp' = "move" /\ ~Logged)) =>
          moveHistory' = moveHistory
    ]_vars

\* C2 is met when a logged move has spliced undone entries off the log.
C2_Witness ==
  lastOp = "move" /\ cut > 0 /\ undos = 0 /\ Len(moveHistory) > 0

\* C3: when the undo() calls of a sequence of undo() and redo() calls with
\* no other handler in between (but the sampler) have all been redone, the
\* board, the log and the cursor are what they were when it began.
C3_UndoRedoRestores ==
  (mark.on /\ mark.depth = 0) =>
     /\ board = mark.board
     /\ moveHistory = mark.moveHistory
     /\ undos = mark.undos

\* C3 is met after two undo() and two redo() calls in a running session.
C3_Witness ==
  /\ lastOp = "redo" /\ started
  /\ mark.on /\ mark.depth = 0 /\ mark.deep >= 2

\* C4 as claimed: a logged player move with n = k appends |k| entries that
\* have its axis and index, n = sign(k), and one and the same time stamp.
C4_OneStampPerMove ==
  [][Logged =>
       \E m \in Moves, t \in 0..MaxClock :
         Gained = Entries(m, [i \in 1..Abs(m.n) |-> t])
    ]_vars

\* C5: a move event that is not the player's changes nothing but the board:
\* handleMove returns the state it is given, in every reachable state, and
\* undo() and redo() change the board and the cursor only.
C5_NonPlayerMoveIsFramed ==
  /\ [](\A m \in Moves : handleMove(State, m, FALSE, NoClock) = State)
  /\ [][lastOp' \in {"undo", "redo"} =>
          UNCHANGED <<cols, rows, event, noRegrips, started, scrambled,
                      inSolvingPhase, dnf, inspecting, time, startTime,
                      memoTime, intervalLive, leaked, scrambledBoard,
                      moveHistory, solvesKey, ownSolves, allSolves,
                      sessionSolves, blind, now>>
       ]_vars

\* C5 is met by an undo() that moved the board of a running Blind session.
C5_Witness ==
  /\ lastOp = "undo" /\ undos > 0
  /\ started /\ event = Blind /\ inSolvingPhase

\* The session has been finalized by a solving move of a Normal or Fmc
\* session: the last solve of this.solves has no dnf and is the log as it
\* stands, of the scramble as it stands.
LastSolve == solvesOf(State)[Len(solvesOf(State))]
AutoSolved ==
  /\ ~started /\ ~scrambled /\ ~inspecting /\ event # Blind
  /\ moveHistory # <<>> /\ undos = 0 /\ BoardIsSolved(board)
  /\ solvesOf(State) # <<>>
  /\ LastSolve.dnf = <<>>
  /\ LastSolve.moves = moveHistory
  /\ LastSolve.scramble = scrambledBoard

\* C6 as claimed: in Normal and Fmc a logged player move that leaves the
\* board solved records a solve, a player move records one only so, and
\* once that has happened no step records another one for the scramble; in
\* Blind only done() records a solve.
C6_SolvedOncePerScramble ==
  [][/\ (Logged /\ event # Blind /\ BoardIsSolved(board')) => Records
     /\ (Records /\ lastOp' = "move") =>
          (Logged /\ event # Blind /\ BoardIsSolved(board'))
     /\ (Records /\ event = Blind) => lastOp' = "done"
     /\ AutoSolved => ~Records
    ]_vars

\* C7 as claimed: done() while the timer is not running changes neither the
\* lists of solves nor dnf, time, the phase flags and the visibility of the
\* board.
C7_DoneIdleIsNoOp ==
  [][(lastOp' = "done" /\ ~started) =>
       UNCHANGED <<ownSolves, sessionSolves, allSolves, dnf, time, started,
                   scrambled, inSolvingPhase, inspecting, blind>>
    ]_vars

\* inspect(solve) and then solve.moves.length calls of redo().
RECURSIVE redoTimes(_, _)
redoTimes(s, k) == IF k = 0 THEN s ELSE redoTimes(redo(s), k - 1)

Replayed(s, solve) == redoTimes(inspect(s, solve), Len(solve.moves)).board

\* C8 as claimed: the replay of a solve recorded by a running session (or by
\* the move that starts one) ends on the board that was on display when the
\* solve was recorded.
C8_ReplayEndsOnFinalBoard ==
  [][(Records /\ (started \/ lastOp' = "move")) =>
       Replayed(State', TheSolve) = board'
    ]_vars

\* The solves recorded under the events that are not Blind.
NotBlindSolves ==
  {ownSolves[i] : i \in 1..Len(ownSolves)}
    \cup UNION {{sessionSolves[k][i] : i \in 1..Len(sessionSolves[k])} :
                  k \in {x \in EventNames : x[4] # EventSuffix[Blind]}}

C10_DnfIffUnsolved ==
  [][/\ Records => ((TheSolve.dnf # <<>>) <=> ~BoardIsSolved(board'))
     /\ (lastOp' = "done" /\ started /\ event = Blind) => Records
     /\ (Records /\ lastOp' = "move") => TheSolve.dnf = <<>>
    ]_vars

\* C10 is met by a solving move right after a solve with dnf was recorded
\* and a new scramble made.
C10_Witness ==
  /\ cut >= 0 /\ ~started /\ event # Blind /\ BoardIsSolved(board)
  /\ Len(solvesOf(State)) = 2
  /\ solvesOf(State)[1].dnf = <<TRUE>>
  /\ solvesOf(State)[2].dnf = <<>>
  /\ solvesOf(State)[2].moves = moveHistory

\* The Solve objects the lists hold.
ObjectsOf(s) ==
  {s.ownSolves[i] : i \in 1..Len(s.ownSolves)}
    \cup {s.allSolves[i] : i \in 1..Len(s.allSolves)}
    \cup UNION {{s.sessionSolves[k][i] : i \in 1..Len(s.sessionSolves[k])} :
                  k \in DOMAIN s.sessionSolves}

\* C11: a Solve object has one value in all the lists that hold it, and no
\* step changes the time, startTime, moves, scramble, memoTime or dnf of a
\* Solve the lists hold (the objects of allSolves are new ones after the
\* store has answered a read).
C11_SolveNeverMutated ==
  /\ [](\A x, y \in ObjectsOf(State) : x.ref = y.ref => x = y)
  /\ [][\A x \in ObjectsOf(State), y \in ObjectsOf(State') :
          (x.ref = y.ref /\ (x.ref > 0 \/ lastOp' # "loaded")) => x = y
       ]_vars

\* C11 is met by a player move on the board of a solve under inspection,
\* whose moves array is the log, with an earlier solve in the lists.
C11_Witness ==
  /\ lastOp = "move" /\ inspecting /\ logRef = 2
  /\ moveHistory # <<>> /\ undos < Len(moveHistory)
  /\ \E x \in ObjectsOf(State) : x.ref = 2 /\ x.moves = moveHistory

\* C12 as claimed: when the store answers the read of the latest full
\* reset, allSolves becomes the stored solves of the event name as it is
\* now; when it answers an earlier read, the answer is dropped, so that
\* allSolves stays as it is (or, the answer being the same, becomes the
\* stored solves of the event name as it is now).
C12_LastResetWins ==
  [][\A i \in 1..Len(loads) :
       (lastOp' = "loaded" /\ State' = loaded(State, i)) =>
          \/ allSolves' = Copies(rowsOf(stored, eventName(State)))
          \/ ~loads[i].latest /\ allSolves' = allSolves
    ]_vars

\* The rows this run of the page has put into the solves table.
OwnRows == SubSeq(stored, Len(History) + 1, Len(stored))

\* C13 as claimed: this run of the page puts at most one row into the
\* sessions table, and the solves it stores all carry one session id.
C13_OneSession ==
  /\ sessions <= Len(History) + 1
  /\ \A i, j \in 1..Len(OwnRows) : OwnRows[i].session = OwnRows[j].session

\* The list holds the solve, as this object or as a copy of it.
HasSolve(list, x) ==
  \E i \in 1..Len(list) : [list[i] EXCEPT !.ref = 0] = [x EXCEPT !.ref = 0]

IsPrefix(a, b) == Len(a) <= Len(b) /\ SubSeq(b, 1, Len(a)) = a

\* C14 as claimed: a read or a write the store fails changes nothing but
\* the store's own requests; no step takes a solve off its list of
\* sessionSolves; and whenever no read is in flight, the solves recorded
\* under the event name as it is now are all in allSolves.
C14_StoreFailureKeepsSolves ==
  /\ [](loads = <<>> =>
          \A i \in 1..Len(sessionSolves[eventName(State)]) :
             HasSolve(allSolves, sessionSolves[eventName(State)][i]))
  /\ [][/\ \A k \in DOMAIN sessionSolves :
             IsPrefix(sessionSolves[k], sessionSolves'[k])
        /\ lastOp' \in {"unloaded", "nosession"} =>
             [State' EXCEPT !.loads = loads, !.puts = puts] = State
       ]_vars

\* C20 as claimed: a solve this run of the page has stored is stored under
\* the event name of the list of sessionSolves that holds it.
C20_StoredUnderOwnKey ==
  \A i \in 1..Len(OwnRows) :
    \E j \in 1..Len(sessionSolves[OwnRows[i].event]) :
      sessionSolves[OwnRows[i].event][j].ref = OwnRows[i].solve.ref

\* The phases of 4.1, as the flags tell them; Idle and Finished have the
\* same flags.
Inspecting == inspecting
BlindSolving == inSolvingPhase
MemorizingBlind == started /\ event = Blind /\ ~inSolvingPhase
Timing == started /\ event # Blind
Scrambled == scrambled /\ ~started
IdleOrFinished == ~started /\ ~scrambled /\ ~inspecting

Phases ==
  <<Inspecting, BlindSolving, MemorizingBlind, Timing, Scrambled,
    IdleOrFinished>>

\* C15: in every reachable state exactly one phase holds; inspecting
\* implies not started, not scrambled and not inSolvingPhase; started
\* implies scrambled; inSolvingPhase implies started and the Blind event.
C15_OnePhase ==
  /\ Cardinality({i \in 1..Len(Phases) : Phases[i]}) = 1
  /\ inspecting => (~started /\ ~scrambled /\ ~inSolvingPhase)
  /\ started => scrambled
  /\ inSolvingPhase => (started /\ event = Blind)

\* C15 is met when done() has ended a Blind session in its solving phase.
C15_Witness ==
  /\ lastOp = "done" /\ event = Blind /\ IdleOrFinished
  /\ solvesOf(State) # <<>> /\ LastSolve.memoTime # <<>>

\* C16: no sampler is scheduled beside the one this.interval names, that
\* one is scheduled exactly while started is true, and the sampler runs in
\* a running session only.
C16_OneSampler ==
  /\ [](leaked = 0 /\ (intervalLive <=> started))
  /\ [][lastOp' = "tick" => (started /\ started')]_vars

\* C16 is met when the sampler has run in a session with a move logged and
\* found the clock advanced.
C16_Witness ==
  /\ lastOp = "tick" /\ started /\ intervalLive
  /\ time > 0 /\ moveHistory # <<>>

\* The step appends the unit entries of a move to the log, after it has
\* dropped the undone entries.
Appends ==
  /\ undos' = 0
  /\ SubSeq(moveHistory', 1, Len(Kept)) = Kept
  /\ \E m \in Moves :
       /\ Len(moveHistory') = Len(Kept) + Abs(m.n)
       /\ Unstamped(Gained) = Unstamped(Entries(m, [i \in 1..2 |-> 0]))

\* C17 as claimed: every move of the player appends its unit entries to the
\* log, in every phase.
C17_EveryMoveLogged == [][lastOp' = "move" => Appends]_vars

\* C17 as amended: a move of the player appends its unit entries to the log
\* if the board is scrambled or the timer runs, and else leaves the log and
\* the cursor as they are.
C17_MoveLoggedInSession ==
  [][lastOp' = "move" =>
       IF scrambled \/ started THEN Appends
       ELSE moveHistory' = moveHistory /\ undos' = undos
    ]_vars

\* C17 is met by a move on the board of a solve under inspection, with
\* entries of its log undone.
C17_Witness ==
  /\ lastOp = "move" /\ cut = -1 /\ inspecting
  /\ undos > 0 /\ undos < Len(moveHistory)

\* C18 as claimed: the board is hidden in the solving phase of a Blind
\* session only; every scramble() in Blind leaves the timer running and the
\* board visible; the board is visible while a solve is inspected.
C18_HiddenOnlyWhileSolving ==
  /\ blind => inSolvingPhase
  /\ (lastOp = "scramble" /\ event = Blind) => (started /\ ~blind)
  /\ inspecting => ~blind

\* The board b after the entries 1..k of the log.
RECURSIVE Applied(_, _, _)
Applied(b, log, k) ==
  IF k = 0 THEN b
  ELSE BoardMove(Applied(b, log, k - 1), log[k].axis, log[k].index, log[k].n)

\* The scramble of the solve under inspection, whose moves array the log is.
InspectedScrambles == {x.scramble : x \in {y \in ObjectsOf(State) : y.ref = logRef}}

\* C19 as claimed: while the timer runs the board is the scramble with the
\* log applied up to the cursor, and while a solve is inspected it is the
\* scramble of that solve with the log applied up to the cursor.
C19_BoardFollowsLog ==
  /\ started =>
       board = Applied(scrambledBoard, moveHistory, Len(moveHistory) - undos)
  /\ (inspecting /\ logRef # 0) =>
       \A b \in InspectedScrambles :
          board = Applied(b, moveHistory, Len(moveHistory) - undos)

====
